---- MODULE Spec2Model ----
(***************************************************************************)
(* The vehicle-detection dashboard of src/app.js (lines 459-1066): the     *)
(* polling fetch cycle (updateData), the table renderer, the connection    *)
(* indicator, the start/stop/reset commands, the health check, the poll    *)
(* and health-check interval timers and the page-visibility handler.       *)
(*                                                                         *)
(* The page is single-threaded: every action below is one run-to-          *)
(* completion segment of a handler, from an event (or from the resolution  *)
(* of the promise an async function awaits) up to its next await or its    *)
(* return.                                                                 *)
(***************************************************************************)
EXTENDS Bags, FiniteSets, Integers, Sequences, TLC

(***************************************************************************)
(* Bounds of the model.                                                    *)
(***************************************************************************)
\* fetch cycles (calls of updateData) in flight at once
MaxCycles == 2
\* interval timers ever created (the browser hands out fresh ids)
MaxTimers == 4
\* length of the object list a /detected-objects response carries
MaxObjects == 2
\* post-command re-fetch timeouts pending at once
MaxPending == 1
\* health checks in flight at once
MaxHealth == 1

Periods == {"day", "week", "month"}

Commands == {"start", "stop", "reset"}

(***************************************************************************)
(* Static data of the page.                                                *)
(***************************************************************************)
colorThemes ==
    [ day   |-> [background |-> "rgba(102, 126, 234, 0.1)", border |-> "#667eea"],
      week  |-> [background |-> "rgba(240, 147, 251, 0.1)", border |-> "#f093fb"],
      month |-> [background |-> "rgba(79, 172, 254, 0.1)",  border |-> "#4facfe"] ]

SampleTable ==
    [ day   |-> [labels |-> <<"00:00", "03:00", "06:00", "09:00",
                              "12:00", "15:00", "18:00", "21:00">>,
                 data   |-> <<12, 8, 25, 45, 38, 52, 68, 42>>],
      week  |-> [labels |-> <<"Monday", "Tuesday", "Wednesday", "Thursday",
                              "Friday", "Saturday", "Sunday">>,
                 data   |-> <<234, 187, 298, 345, 412, 389, 267>>],
      month |-> [labels |-> <<"Week 1", "Week 2", "Week 3", "Week 4">>,
                 data   |-> <<1250, 1434, 1123, 1567>>] ]

\* data[period] || data.day
generateSampleData(period) ==
    IF period \in DOMAIN SampleTable THEN SampleTable[period] ELSE SampleTable.day

(***************************************************************************)
(* Response bodies the backend may send.  A body is "unparsable" (json()   *)
(* rejects), the JSON value null, or an object.                            *)
(***************************************************************************)
NoBody == [kind |-> "none"]

\* analytics of one period as a live response carries it
LiveData(p) ==
    CASE p = "day"   -> [labels |-> <<"00:00">>,  data |-> <<12>>]
      [] p = "week"  -> [labels |-> <<"Monday">>, data |-> <<7>>]
      [] p = "month" -> [labels |-> <<"Week 1">>, data |-> <<30>>]

\* the sets of periods a /vehicle-stats response carries analytics for
AnalyticsDomains == {{}, {"day", "week"}}

StatsBodies ==
    {[kind |-> "unparsable"], [kind |-> "null"]} \cup
    {[kind |-> "object", is_running |-> r, analytics |-> [p \in S |-> LiveData(p)]] :
        r \in BOOLEAN, S \in AnalyticsDomains}

Scores == <<80, 59, 60>>

\* the i-th detected object of a response
Obj(i) ==
    [ id               |-> i,
      vehicle_type     |-> IF i % 2 = 1 THEN "car" ELSE "motorcycle",
      confidence_score |-> Scores[((i - 1) % Len(Scores)) + 1],
      detected_at      |-> "12:00:00",
      status           |-> IF i % 2 = 1 THEN "Active" ELSE "Expired" ]

ObjectList(n) == [i \in 1..n |-> Obj(i)]

\* a null element of the list
NullElement == [kind |-> "null"]

\* the unexpected payloads are an object body with no `objects` list and a list
\* with a null element
ObjectsBodies ==
    {[kind |-> "unparsable"], [kind |-> "null"],
     [kind |-> "object", active_objects |-> 1],
     [kind |-> "object", active_objects |-> 1, objects |-> <<Obj(1), NullElement>>]} \cup
    {[kind |-> "object", active_objects |-> (n + 1) \div 2, objects |-> ObjectList(n)] :
        n \in 0..MaxObjects}

\* { success: bool } of a command, null, or a body that does not parse
CommandBodies ==
    {[kind |-> "unparsable"], [kind |-> "null"],
     [kind |-> "object", success |-> TRUE], [kind |-> "object", success |-> FALSE]}

HealthBodies ==
    {[kind |-> "unparsable"], [kind |-> "null"],
     [kind |-> "object", status |-> "healthy"], [kind |-> "object", status |-> "degraded"]}

(***************************************************************************)
(* The table renderer.                                                     *)
(***************************************************************************)
\* the tiers with 80 and 60 falling into the lower tier
confidenceClassExclusive(score) ==
    IF score > 80 THEN "confidence-high"
    ELSE IF score > 60 THEN "confidence-medium"
    ELSE "confidence-low"

confidenceClass(score) ==
    IF score >= 80 THEN "confidence-high"
    ELSE IF score >= 60 THEN "confidence-medium"
    ELSE "confidence-low"

\* the cells of one <tr>
RenderRow(obj) ==
    [ id              |-> obj.id,
      vehicleClass    |-> IF obj.vehicle_type = "car" THEN "vehicle-car"
                          ELSE "vehicle-motorcycle",
      vehicle_type    |-> obj.vehicle_type,
      confidenceClass |-> confidenceClass(obj.confidence_score),
      confidence      |-> obj.confidence_score,
      detected_at     |-> obj.detected_at,
      statusClass     |-> IF obj.status = "Active" THEN "status-active"
                          ELSE "status-expired",
      status          |-> obj.status ]

\* the elements forEach renders before a read of obj.confidence_score throws:
\* all of them when no element is null
Rendered(objects) ==
    IF \E i \in 1..Len(objects) : objects[i] = NullElement
    THEN (CHOOSE i \in 1..Len(objects) :
              /\ objects[i] = NullElement
              /\ \A j \in 1..(i - 1) : objects[j] # NullElement) - 1
    ELSE Len(objects)

\* updateObjectsTable without `tableBody.innerHTML = ''`: the new rows follow the old
updateObjectsTableAppends(t, objects) ==
    [ table  |-> [ badge     |-> ToString(Len(objects)) \o " objects",
                   noObjects |-> IF Len(objects) = 0 THEN "block" ELSE "none",
                   rows      |-> IF Len(objects) = 0 THEN <<>>
                                 ELSE t.rows \o [i \in 1..Rendered(objects) |->
                                                    RenderRow(objects[i])] ],
      thrown |-> Rendered(objects) < Len(objects) ]

\* updateObjectsTable(objects), objects a list, on the table t: the table it
\* leaves, and whether it threw on a null element
updateObjectsTable(t, objects) ==
    [ table  |-> [ badge     |-> ToString(Len(objects)) \o " objects",
                   noObjects |-> IF Len(objects) = 0 THEN "block" ELSE "none",
                   rows      |-> [i \in 1..Rendered(objects) |-> RenderRow(objects[i])] ],
      thrown |-> Rendered(objects) < Len(objects) ]

(***************************************************************************)
(* State.                                                                  *)
(***************************************************************************)
VARIABLES
    initialized,     \* DOMContentLoaded has run initialize()
    hidden,          \* document.hidden
    intervals,       \* the browser's live interval timers: records [id, fn]
    nextTimer,       \* the id the next setInterval returns
    updateInterval,  \* the global handle of the poll timer, 0 while undefined
    isConnected,     \* the global flag
    statusIndicator, \* className of #connection-status
    currentPeriod,   \* the global period
    activeButtons,   \* the periods whose .chart-control-btn carries `active`
    chart,           \* analyticsChart: labels, data and the dataset's colours
    activeObjects,   \* textContent of #active-objects
    lastUpdate,      \* textContent of #last-update
    detection,       \* #detection-status and #status-text
    table,           \* #object-count-badge, #no-objects and the rows of the body
    cycles,          \* the calls of updateData in flight: a bag of [pc, statsData]
    cmdPc,           \* position of startDetection, stopDetection, resetCount
    button,          \* the three command buttons
    originalText,    \* the local originalText of each command
    posts,           \* the commands whose POST request is outstanding
    pendingRefetch,  \* setTimeout(updateData, 500) callbacks not yet run
    notification,    \* the newest notification on the page
    welcomePending,  \* the welcome notification's timeout has not yet run
    healthChecks,    \* the calls of healthCheck in flight: a bag of positions
    touchStartX,     \* the global set by the touchstart listener
    touchEndX,       \* the global set by the touchend listener
    refreshes,       \* the calls of refreshData in flight: a bag of
                     \* [pc, statsData, originalText], pc the position of
                     \* the call's own updateData
    refreshButton,   \* #refresh-btn
    backend,         \* the backend as the poll meets it: "flaky" or "up"
    last             \* the handler segment that ran last, with its inputs

pageVars == <<initialized, hidden>>
timerVars == <<intervals, nextTimer, updateInterval>>
connVars == <<isConnected, statusIndicator>>
periodVars == <<currentPeriod, activeButtons>>
displayVars == <<activeObjects, lastUpdate, detection, table>>
cmdVars == <<cmdPc, button, originalText, posts, pendingRefetch>>
touchVars == <<touchStartX, touchEndX>>
refreshVars == <<refreshes, refreshButton>>
vars == <<pageVars, timerVars, connVars, periodVars, chart, displayVars, cycles,
          cmdVars, notification, welcomePending, healthChecks, touchVars,
          refreshVars, backend, last>>

\* what toLocaleTimeString() may return
Times == {"10:00:03", "10:00:06"}

\* the markup's label of each command button
HtmlLabel(c) ==
    CASE c = "start" -> "Start Detection"
      [] c = "stop"  -> "Stop Detection"
      [] c = "reset" -> "Reset Count"

NoNotification == [message |-> "", type |-> "none"]

\* the markup's label of the refresh button
RefreshLabel == "Refresh Data"

Init ==
    /\ initialized = FALSE
    /\ hidden = FALSE
    /\ intervals = {}
    /\ nextTimer = 1
    /\ updateInterval = 0
    /\ isConnected = TRUE
    /\ statusIndicator = "status-indicator"
    /\ currentPeriod = "day"
    /\ activeButtons \in SUBSET Periods
    /\ chart = [labels |-> <<>>, data |-> <<>>,
                backgroundColor |-> colorThemes.day.background,
                borderColor |-> colorThemes.day.border]
    /\ activeObjects = "0"
    /\ lastUpdate = "--"
    /\ detection = [glyph |-> "", className |-> "stat-value", text |-> ""]
    /\ table = [badge |-> "0 objects", noObjects |-> "block", rows |-> <<>>]
    /\ cycles = EmptyBag
    /\ cmdPc = [c \in Commands |-> "idle"]
    /\ button = [c \in Commands |->
                    [disabled |-> FALSE, loading |-> FALSE, innerHTML |-> HtmlLabel(c)]]
    /\ originalText = [c \in Commands |-> ""]
    /\ posts = {}
    /\ pendingRefetch = 0
    /\ notification = NoNotification
    /\ welcomePending = FALSE
    /\ healthChecks = EmptyBag
    /\ touchStartX = 0
    /\ touchEndX = 0
    /\ refreshes = EmptyBag
    /\ refreshButton = [disabled |-> FALSE, loading |-> FALSE,
                        innerHTML |-> RefreshLabel]
    /\ backend = "flaky"
    /\ last = [op |-> "load"]

(***************************************************************************)
(* Timers.                                                                 *)
(***************************************************************************)
\* the timer state as one record, so that a handler can chain several calls
Timers == [live |-> intervals, next |-> nextTimer, handle |-> updateInterval]

SetTimers(t) ==
    /\ intervals' = t.live
    /\ nextTimer' = t.next
    /\ updateInterval' = t.handle

clearInterval(live, id) == {i \in live : i.id # id}

\* setInterval(fn, ms): the timer gets the next fresh id
setInterval(t, fn) ==
    [t EXCEPT !.live = @ \cup {[id |-> t.next, fn |-> fn]}, !.next = @ + 1]

\* the timer is left running
clearPollTimerSkipped(t) == t

\* if (updateInterval) clearInterval(updateInterval)
clearPollTimer(t) ==
    IF t.handle # 0 THEN [t EXCEPT !.live = clearInterval(@, t.handle)] ELSE t

\* startAutoReconnect that clears the old timer and sets none
startAutoReconnectNoTimer(t) == clearPollTimer(t)

startAutoReconnect(t) ==
    [setInterval(clearPollTimer(t), "updateData") EXCEPT !.handle = t.next]

PollTimers == {i \in intervals : i.fn = "updateData"}
HealthTimers == {i \in intervals : i.fn = "healthCheck"}

(***************************************************************************)
(* The page as updateData reads and writes it.                             *)
(***************************************************************************)
Dom ==
    [ isConnected     |-> isConnected,
      statusIndicator |-> statusIndicator,
      activeObjects   |-> activeObjects,
      lastUpdate      |-> lastUpdate,
      detection       |-> detection,
      table           |-> table,
      chart           |-> chart ]

SetDom(d) ==
    /\ isConnected' = d.isConnected
    /\ statusIndicator' = d.statusIndicator
    /\ activeObjects' = d.activeObjects
    /\ lastUpdate' = d.lastUpdate
    /\ detection' = d.detection
    /\ table' = d.table
    /\ chart' = d.chart

updateConnectionStatus(d, connected) ==
    IF connected
    THEN [d EXCEPT !.statusIndicator = "status-indicator connected", !.isConnected = TRUE]
    ELSE [d EXCEPT !.statusIndicator = "status-indicator", !.isConnected = FALSE]

\* String(x) of a field that may be missing
TextOf(body, field) ==
    IF field \in DOMAIN body THEN ToString(body[field]) ELSE "undefined"

DetectionOf(is_running) ==
    IF is_running
    THEN [glyph |-> "running-dot", className |-> "stat-value status-running",
          text |-> "Running"]
    ELSE [glyph |-> "pause", className |-> "stat-value status-stopped",
          text |-> "Stopped"]

\* the try block falling back to the sample data of the period when the
\* snapshot carries no analytics for it
updateDataTrySampleFallback(d, statsData, objectsData, time, period) ==
    LET s1 == updateConnectionStatus(d, TRUE)
        s2 == [s1 EXCEPT !.activeObjects = TextOf(objectsData, "active_objects")]
        s3 == [s2 EXCEPT !.lastUpdate = time]
        s4 == [s3 EXCEPT !.detection = DetectionOf(statsData.is_running)]
        tbl == updateObjectsTable(s4.table, objectsData.objects)
        s5 == [s4 EXCEPT !.table = tbl.table]
        s6 == IF period \in DOMAIN statsData.analytics
              THEN [s5 EXCEPT !.chart.labels = statsData.analytics[period].labels,
                              !.chart.data = statsData.analytics[period].data]
              ELSE [s5 EXCEPT !.chart.labels = generateSampleData(period).labels,
                              !.chart.data = generateSampleData(period).data]
    IN  IF objectsData.kind = "null" THEN [dom |-> s1, thrown |-> TRUE]
        ELSE IF statsData.kind = "null" THEN [dom |-> s3, thrown |-> TRUE]
        ELSE IF "objects" \notin DOMAIN objectsData THEN [dom |-> s4, thrown |-> TRUE]
        ELSE IF tbl.thrown THEN [dom |-> s5, thrown |-> TRUE]
        ELSE [dom |-> s6, thrown |-> FALSE]

\* The statements of updateData's try block after both bodies are parsed, in
\* order; each stage is the page after its statement, and `thrown` says that the
\* next statement threw a TypeError (a property read of null, or of undefined
\* or of a null element in updateObjectsTable).
updateDataTry(d, statsData, objectsData, time, period) ==
    LET s1 == updateConnectionStatus(d, TRUE)
        s2 == [s1 EXCEPT !.activeObjects = TextOf(objectsData, "active_objects")]
        s3 == [s2 EXCEPT !.lastUpdate = time]
        s4 == [s3 EXCEPT !.detection = DetectionOf(statsData.is_running)]
        tbl == updateObjectsTable(s4.table, objectsData.objects)
        s5 == [s4 EXCEPT !.table = tbl.table]
        s6 == IF period \in DOMAIN statsData.analytics
              THEN [s5 EXCEPT !.chart.labels = statsData.analytics[period].labels,
                              !.chart.data = statsData.analytics[period].data]
              ELSE s5
    IN  IF objectsData.kind = "null" THEN [dom |-> s1, thrown |-> TRUE]
        ELSE IF statsData.kind = "null" THEN [dom |-> s3, thrown |-> TRUE]
        ELSE IF "objects" \notin DOMAIN objectsData THEN [dom |-> s4, thrown |-> TRUE]
        ELSE IF tbl.thrown THEN [dom |-> s5, thrown |-> TRUE]
        ELSE [dom |-> s6, thrown |-> FALSE]

\* a catch block that also empties the table
updateDataCatchClearsTable(d) ==
    [updateConnectionStatus(d, FALSE) EXCEPT
        !.table = [badge |-> "0 objects", noObjects |-> "block", rows |-> <<>>]]

\* the catch block of updateData
updateDataCatch(d) == updateConnectionStatus(d, FALSE)

\* a call of updateData up to its first await: both requests are issued
updateDataCall(inflight) ==
    inflight (+) SetToBag({[pc |-> "all", statsData |-> NoBody]})

FetchOutcomes == {"rejected", "notOk", "ok"}

\* Promise.all settles: the two fetches have resolved or one has rejected
updateDataResponses(c, statsOutcome, objectsOutcome) ==
    /\ BagIn(c, cycles) /\ c.pc = "all"
    /\ IF statsOutcome = "ok" /\ objectsOutcome = "ok"
       THEN /\ cycles' = (cycles (-) SetToBag({c})) (+)
                             SetToBag({[c EXCEPT !.pc = "statsJson"]})
            /\ UNCHANGED <<connVars, chart, displayVars>>
       ELSE /\ cycles' = cycles (-) SetToBag({c})
            /\ SetDom(updateDataCatch(Dom))
    /\ UNCHANGED <<touchVars, refreshVars, backend>>
    /\ last' = [op |-> "updateData", at |-> "all", statsOutcome |-> statsOutcome,
                objectsOutcome |-> objectsOutcome]
    /\ UNCHANGED <<pageVars, timerVars, periodVars, cmdVars, notification,
                   welcomePending, healthChecks>>

\* statsResponse.json() settles
updateDataStatsJson(c, body) ==
    /\ BagIn(c, cycles) /\ c.pc = "statsJson"
    /\ IF body.kind = "unparsable"
       THEN /\ cycles' = cycles (-) SetToBag({c})
            /\ SetDom(updateDataCatch(Dom))
       ELSE /\ cycles' = (cycles (-) SetToBag({c})) (+)
                             SetToBag({[pc |-> "objectsJson", statsData |-> body]})
            /\ UNCHANGED <<connVars, chart, displayVars>>
    /\ UNCHANGED <<touchVars, refreshVars, backend>>
    /\ last' = [op |-> "updateData", at |-> "statsJson", statsData |-> body]
    /\ UNCHANGED <<pageVars, timerVars, periodVars, cmdVars, notification,
                   welcomePending, healthChecks>>

\* objectsResponse.json() settles; the rest of updateData runs to its end
updateDataObjectsJson(c, body, time) ==
    /\ BagIn(c, cycles) /\ c.pc = "objectsJson"
    /\ cycles' = cycles (-) SetToBag({c})
    /\ IF body.kind = "unparsable"
       THEN SetDom(updateDataCatch(Dom))
       ELSE LET r == updateDataTry(Dom, c.statsData, body, time, currentPeriod)
            IN  SetDom(IF r.thrown THEN updateDataCatch(r.dom) ELSE r.dom)
    /\ UNCHANGED <<touchVars, refreshVars, backend>>
    /\ last' = [op |-> "updateData", at |-> "objectsJson", statsData |-> c.statsData,
                objectsData |-> body]
    /\ UNCHANGED <<pageVars, timerVars, periodVars, cmdVars, notification,
                   welcomePending, healthChecks>>

(***************************************************************************)
(* Notifications and the period controls.                                  *)
(***************************************************************************)
\* showNotification: the new notification replaces the ones on the page
showNotification(message, type) == [message |-> message, type |-> type]

\* period.charAt(0).toUpperCase() + period.slice(1)
Capitalized(period) ==
    CASE period = "day"   -> "Day"
      [] period = "week"  -> "Week"
      [] period = "month" -> "Month"

\* changePeriod without line 596: the other buttons stay active
changePeriodKeepsActive(period) ==
    /\ currentPeriod' = period
    /\ activeButtons' = activeButtons \cup {period}
    /\ chart' = [labels |-> generateSampleData(period).labels,
                 data |-> generateSampleData(period).data,
                 backgroundColor |-> colorThemes[period].background,
                 borderColor |-> colorThemes[period].border]
    /\ notification' = showNotification("Switched to " \o Capitalized(period) \o " view",
                                        "info")

changePeriod(period) ==
    /\ currentPeriod' = period
    /\ activeButtons' = (activeButtons \ Periods) \cup {period}
    /\ chart' = [labels |-> generateSampleData(period).labels,
                 data |-> generateSampleData(period).data,
                 backgroundColor |-> colorThemes[period].background,
                 borderColor |-> colorThemes[period].border]
    /\ notification' = showNotification("Switched to " \o Capitalized(period) \o " view",
                                        "info")

\* the keydown listener: Ctrl/Cmd + 1, 2, 3
KeyChangePeriod(period) ==
    /\ initialized /\ ~hidden
    /\ changePeriod(period)
    /\ UNCHANGED <<touchVars, refreshVars, backend>>
    /\ last' = [op |-> "changePeriod", period |-> period]
    /\ UNCHANGED <<pageVars, timerVars, connVars, displayVars, cycles, cmdVars,
                   welcomePending, healthChecks>>

(***************************************************************************)
(* Touch gestures.                                                         *)
(***************************************************************************)
\* const threshold
threshold == 100

\* const periods, an array indexed from 0
periods == <<"day", "week", "month">>

\* Array.prototype.indexOf
indexOf(array, x) ==
    IF \E i \in 1..Len(array) : array[i] = x
    THEN (CHOOSE i \in 1..Len(array) :
              array[i] = x /\ \A j \in 1..(i - 1) : array[j] # x) - 1
    ELSE -1

\* Math.abs
abs(n) == IF n < 0 THEN -n ELSE n

\* no call of changePeriod
NoPeriod == ""

\* handleGesture taking a swipe of exactly the threshold for a swipe
handleGestureTargetInclusive(startX, endX, period) ==
    LET diff == startX - endX
        currentIndex == indexOf(periods, period)
    IN  IF abs(diff) >= threshold
        THEN IF diff > 0
             THEN periods[((currentIndex + 1) % Len(periods)) + 1]
             ELSE periods[(IF currentIndex = 0 THEN Len(periods) - 1
                                               ELSE currentIndex - 1) + 1]
        ELSE NoPeriod

\* handleGesture: the period it hands to changePeriod, NoPeriod when it makes
\* no call
handleGestureTarget(startX, endX, period) ==
    LET diff == startX - endX
        currentIndex == indexOf(periods, period)
    IN  IF abs(diff) > threshold
        THEN IF diff > 0
             THEN periods[((currentIndex + 1) % Len(periods)) + 1]
             ELSE periods[(IF currentIndex = 0 THEN Len(periods) - 1
                                               ELSE currentIndex - 1) + 1]
        ELSE NoPeriod

handleGesture(startX, endX) ==
    LET target == handleGestureTarget(startX, endX, currentPeriod)
    IN  IF target = NoPeriod
        THEN UNCHANGED <<periodVars, chart, notification>>
        ELSE changePeriod(target)

\* e.changedTouches[0].screenX
ScreenXs == {0, 100, 201}

\* the touchstart listener
TouchStart(x) ==
    /\ ~hidden
    /\ touchStartX' = x
    /\ last' = [op |-> "touchstart", x |-> x]
    /\ UNCHANGED <<pageVars, timerVars, connVars, periodVars, chart, displayVars,
                   cycles, cmdVars, notification, welcomePending, healthChecks,
                   touchEndX, refreshVars, backend>>

\* the touchend listener
TouchEnd(x) ==
    /\ ~hidden
    /\ touchEndX' = x
    /\ handleGesture(touchStartX, x)
    /\ last' = [op |-> "touchend", x |-> x]
    /\ UNCHANGED <<pageVars, timerVars, connVars, displayVars, cycles, cmdVars,
                   welcomePending, healthChecks, touchStartX, refreshVars, backend>>

\* a notification's 5 s timeout, or a click on its close button
NotificationRemoved ==
    /\ notification # NoNotification
    /\ notification' = NoNotification
    /\ UNCHANGED <<touchVars, refreshVars, backend>>
    /\ last' = [op |-> "notificationRemoved"]
    /\ UNCHANGED <<pageVars, timerVars, connVars, periodVars, chart, displayVars,
                   cycles, cmdVars, welcomePending, healthChecks>>

(***************************************************************************)
(* initialize, the timers' callbacks and the page's visibility.            *)
(***************************************************************************)
\* DOMContentLoaded
initialize ==
    /\ ~initialized
    /\ initialized' = TRUE
    /\ changePeriod("day")
    /\ cycles' = updateDataCall(cycles)
    /\ SetTimers(setInterval(startAutoReconnect(Timers), "healthCheck"))
    /\ welcomePending' = TRUE
    /\ UNCHANGED <<touchVars, refreshVars, backend>>
    /\ last' = [op |-> "initialize"]
    /\ UNCHANGED <<hidden, connVars, displayVars, cmdVars, healthChecks>>

\* the timeout of the welcome notification
WelcomeTimeout ==
    /\ welcomePending
    /\ welcomePending' = FALSE
    /\ notification' = showNotification("Dashboard loaded successfully!", "success")
    /\ UNCHANGED <<touchVars, refreshVars, backend>>
    /\ last' = [op |-> "welcome"]
    /\ UNCHANGED <<pageVars, timerVars, connVars, periodVars, chart, displayVars,
                   cycles, cmdVars, healthChecks>>

\* a tick of a live poll timer
PollTick ==
    /\ PollTimers # {}
    /\ BagCardinality(cycles) < MaxCycles
    /\ cycles' = updateDataCall(cycles)
    /\ UNCHANGED <<touchVars, refreshVars, backend>>
    /\ last' = [op |-> "pollTick"]
    /\ UNCHANGED <<pageVars, timerVars, connVars, periodVars, chart, displayVars,
                   cmdVars, notification, welcomePending, healthChecks>>

\* setTimeout(updateData, 500) of a finished command runs
RefetchTimeout ==
    /\ pendingRefetch > 0
    /\ BagCardinality(cycles) < MaxCycles
    /\ pendingRefetch' = pendingRefetch - 1
    /\ cycles' = updateDataCall(cycles)
    /\ UNCHANGED <<touchVars, refreshVars, backend>>
    /\ last' = [op |-> "refetchTimeout"]
    /\ UNCHANGED <<pageVars, timerVars, connVars, periodVars, chart, displayVars,
                   cmdPc, button, originalText, posts, notification, welcomePending,
                   healthChecks>>

\* the hidden branch of the visibilitychange listener
onHidden(t) == clearPollTimer(t)

\* a visible branch that does not restart the poll timer
onVisibleNoRestart(t) == t

\* the visible branch of the visibilitychange listener, up to updateData()
onVisible(t) == startAutoReconnect(t)

\* visibilitychange, the page now hidden
VisibilityHidden ==
    /\ initialized /\ ~hidden
    /\ hidden' = TRUE
    /\ SetTimers(onHidden(Timers))
    /\ UNCHANGED <<touchVars, refreshVars, backend>>
    /\ last' = [op |-> "hidden"]
    /\ UNCHANGED <<initialized, connVars, periodVars, chart, displayVars, cycles,
                   cmdVars, notification, welcomePending, healthChecks>>

\* visibilitychange, the page visible again
VisibilityVisible ==
    /\ initialized /\ hidden
    /\ nextTimer <= MaxTimers
    /\ BagCardinality(cycles) < MaxCycles
    /\ hidden' = FALSE
    /\ SetTimers(onVisible(Timers))
    /\ cycles' = updateDataCall(cycles)
    /\ UNCHANGED <<touchVars, refreshVars, backend>>
    /\ last' = [op |-> "visible"]
    /\ UNCHANGED <<initialized, connVars, periodVars, chart, displayVars, cmdVars,
                   notification, welcomePending, healthChecks>>

\* beforeunload
BeforeUnload ==
    /\ initialized
    /\ SetTimers(clearPollTimer(Timers))
    /\ UNCHANGED <<touchVars, refreshVars, backend>>
    /\ last' = [op |-> "beforeunload"]
    /\ UNCHANGED <<pageVars, connVars, periodVars, chart, displayVars, cycles,
                   cmdVars, notification, welcomePending, healthChecks>>

(***************************************************************************)
(* The commands: startDetection, stopDetection, resetCount.                *)
(***************************************************************************)
LoadingLabel(c) ==
    CASE c = "start" -> "Starting..."
      [] c = "stop"  -> "Stopping..."
      [] c = "reset" -> "Resetting..."

SuccessNotification(c) ==
    CASE c = "start" -> showNotification("Detection started successfully!", "success")
      [] c = "stop"  -> showNotification("Detection stopped successfully!", "success")
      [] c = "reset" -> showNotification("All data reset successfully!", "success")

\* the notification of the catch block
CatchNotification(c) ==
    CASE c = "start" -> showNotification("Failed to start detection", "error")
      [] c = "stop"  -> showNotification("Failed to stop detection", "error")
      [] c = "reset" -> showNotification("Failed to reset data", "error")

\* the notification of the else branch, the response saying success: false
RefusedNotification(c) ==
    CASE c = "start" -> showNotification("result.message", "warning")
      [] c = "stop"  -> showNotification("Failed to stop detection", "error")
      [] c = "reset" -> showNotification("Failed to reset data", "error")

\* the head of the try block: the button is disabled and the POST is sent
commandSend(c) ==
    /\ cmdPc' = [cmdPc EXCEPT ![c] = "fetch"]
    /\ button' = [button EXCEPT ![c] = [disabled |-> TRUE, loading |-> TRUE,
                                        innerHTML |-> LoadingLabel(c)]]
    /\ posts' = posts \cup {c}

\* a resetCount that does not look at the answer of confirm()
commandStartUnconfirmed(c, confirmed) ==
    /\ originalText' = [originalText EXCEPT ![c] = button[c].innerHTML]
    /\ commandSend(c)

\* a command from its call to its first await or, resetCount's dialog being
\* answered no, to its return; `confirmed` is the answer of confirm()
commandStart(c, confirmed) ==
    /\ originalText' = [originalText EXCEPT ![c] = button[c].innerHTML]
    /\ IF c = "reset" /\ ~confirmed
       THEN UNCHANGED <<cmdPc, button, posts>>
       ELSE commandSend(c)

\* a click on a command button (a disabled button takes no click)
CommandClick(c, confirmed) ==
    /\ initialized /\ ~hidden
    /\ ~button[c].disabled
    /\ Cardinality({x \in Commands : cmdPc[x] # "idle"}) + pendingRefetch < MaxPending
    /\ commandStart(c, confirmed)
    /\ UNCHANGED <<touchVars, refreshVars, backend>>
    /\ last' = [op |-> "click", c |-> c, confirmed |-> confirmed]
    /\ UNCHANGED <<pageVars, timerVars, connVars, periodVars, chart, displayVars,
                   cycles, pendingRefetch, notification, welcomePending, healthChecks>>

\* a reset that puts the day's sample data into the chart in every view
resetSuccessOfDay ==
    /\ chart' = [chart EXCEPT !.labels = generateSampleData("day").labels,
                              !.data = generateSampleData("day").data]
    /\ table' = updateObjectsTable(table, <<>>).table

\* the success branch of resetCount: the chart and the table are reset
resetSuccess ==
    /\ chart' = [chart EXCEPT !.labels = generateSampleData(currentPeriod).labels,
                              !.data = generateSampleData(currentPeriod).data]
    /\ table' = updateObjectsTable(table, <<>>).table

\* a resetCount that resets the chart and the table whatever the response says
commandResultResetsAlways(c, body) ==
    /\ notification' = IF body.kind = "object" /\ body.success
                       THEN SuccessNotification(c)
                       ELSE IF body.kind = "object" THEN RefusedNotification(c)
                       ELSE CatchNotification(c)
    /\ IF c = "reset" THEN resetSuccess ELSE UNCHANGED <<chart, table>>

\* what a command does with its parsed response: result.success is read (a
\* TypeError on null, caught), then the branch's notification is shown
commandResult(c, body) ==
    IF body.kind = "object" /\ body.success
    THEN /\ notification' = SuccessNotification(c)
         /\ IF c = "reset" THEN resetSuccess ELSE UNCHANGED <<chart, table>>
    ELSE /\ notification' = IF body.kind = "object" THEN RefusedNotification(c)
                            ELSE CatchNotification(c)
         /\ UNCHANGED <<chart, table>>

\* a finally block that enables the button and leaves the in-progress label
commandFinallyKeepsLabel(c) ==
    /\ cmdPc' = [cmdPc EXCEPT ![c] = "idle"]
    /\ button' = [button EXCEPT ![c] = [disabled |-> FALSE, loading |-> FALSE,
                                        innerHTML |-> button[c].innerHTML]]
    /\ pendingRefetch' = pendingRefetch + 1

\* the finally block: the button is restored and one re-fetch is scheduled
commandFinally(c) ==
    /\ cmdPc' = [cmdPc EXCEPT ![c] = "idle"]
    /\ button' = [button EXCEPT ![c] = [disabled |-> FALSE, loading |-> FALSE,
                                        innerHTML |-> originalText[c]]]
    /\ pendingRefetch' = pendingRefetch + 1

\* the command's fetch settles
CommandFetchSettles(c, ok) ==
    /\ cmdPc[c] = "fetch"
    /\ posts' = posts \ {c}
    /\ IF ok
       THEN /\ cmdPc' = [cmdPc EXCEPT ![c] = "json"]
            /\ UNCHANGED <<button, pendingRefetch, notification>>
       ELSE /\ notification' = CatchNotification(c)
            /\ commandFinally(c)
    /\ UNCHANGED <<touchVars, refreshVars, backend>>
    /\ last' = [op |-> "command", c |-> c, at |-> "fetch", ok |-> ok]
    /\ UNCHANGED <<pageVars, timerVars, connVars, periodVars, chart, displayVars,
                   cycles, originalText, welcomePending, healthChecks>>

\* response.json() settles; the rest of the command runs to its end
CommandJsonSettles(c, body) ==
    /\ cmdPc[c] = "json"
    /\ commandResult(c, body)
    /\ commandFinally(c)
    /\ UNCHANGED <<touchVars, refreshVars, backend>>
    /\ last' = [op |-> "command", c |-> c, at |-> "json", body |-> body]
    /\ UNCHANGED <<pageVars, timerVars, connVars, periodVars, activeObjects,
                   lastUpdate, detection, cycles, originalText, posts, welcomePending,
                   healthChecks>>

(***************************************************************************)
(* healthCheck.                                                            *)
(***************************************************************************)
\* a tick of the health-check timer: healthCheck up to its first await
HealthTick ==
    /\ HealthTimers # {}
    /\ BagCardinality(healthChecks) < MaxHealth
    /\ healthChecks' = healthChecks (+) SetToBag({"fetch"})
    /\ UNCHANGED <<touchVars, refreshVars, backend>>
    /\ last' = [op |-> "healthTick"]
    /\ UNCHANGED <<pageVars, timerVars, connVars, periodVars, chart, displayVars,
                   cycles, cmdVars, notification, welcomePending>>

\* the catch block of healthCheck
healthCheckCatch(d) == updateConnectionStatus(d, FALSE)

\* what healthCheck does with the parsed body of /health: data.status is read
\* (a TypeError on null, caught) and compared with 'healthy'
healthCheckResult(d, body) ==
    IF body.kind = "object"
    THEN IF body.status = "healthy" THEN updateConnectionStatus(d, TRUE) ELSE d
    ELSE healthCheckCatch(d)

\* the fetch of /health settles
HealthFetchSettles(ok) ==
    /\ BagIn("fetch", healthChecks)
    /\ IF ok
       THEN /\ healthChecks' = (healthChecks (-) SetToBag({"fetch"})) (+)
                                   SetToBag({"json"})
            /\ UNCHANGED <<connVars, chart, displayVars>>
       ELSE /\ healthChecks' = healthChecks (-) SetToBag({"fetch"})
            /\ SetDom(healthCheckCatch(Dom))
    /\ UNCHANGED <<touchVars, refreshVars, backend>>
    /\ last' = [op |-> "healthCheck", at |-> "fetch", ok |-> ok]
    /\ UNCHANGED <<pageVars, timerVars, periodVars, cycles, cmdVars, notification,
                   welcomePending>>

\* response.json() of /health settles; healthCheck runs to its end
HealthJsonSettles(body) ==
    /\ BagIn("json", healthChecks)
    /\ healthChecks' = healthChecks (-) SetToBag({"json"})
    /\ SetDom(healthCheckResult(Dom, body))
    /\ UNCHANGED <<touchVars, refreshVars, backend>>
    /\ last' = [op |-> "healthCheck", at |-> "json", body |-> body]
    /\ UNCHANGED <<pageVars, timerVars, periodVars, cycles, cmdVars, notification,
                   welcomePending>>

(***************************************************************************)
(* The manual refresh.  A call of refreshData awaits its own call of        *)
(* updateData, whose position the call's record carries; the segment of     *)
(* updateData that ends it resumes refreshData at once, a microtask later.  *)
(***************************************************************************)
RefreshingLabel == "Refreshing..."

\* refreshData up to its await: the label is read, the button is put into its
\* loading state and updateData runs up to its first await
refreshDataCall(inflight, text) ==
    inflight (+) SetToBag({[pc |-> "all", statsData |-> NoBody, originalText |-> text]})

\* an updateData that hands its error on to the caller
updateDataRejectsOnFailure(failed) == failed

\* whether the promise of updateData rejects: the catch block of updateData
\* handles every error of the cycle and throws none
updateDataRejects(failed) == FALSE

\* the notification of refreshData: of its try block, or of its catch block
\* when the awaited promise rejected
refreshDataNotification(rejected) ==
    IF rejected THEN showNotification("Failed to refresh data", "error")
    ELSE showNotification("Data refreshed successfully!", "success")

\* the finally block
refreshDataFinally(r) ==
    refreshButton' = [disabled |-> FALSE, loading |-> FALSE, innerHTML |-> r.originalText]

\* refreshData after its await, the awaited updateData having failed or not
refreshDataResumes(r, failed) ==
    /\ refreshes' = refreshes (-) SetToBag({r})
    /\ notification' = refreshDataNotification(updateDataRejects(failed))
    /\ refreshDataFinally(r)

\* the refreshes that may be in flight at once
MaxRefresh == 2

\* the keydown listener: Ctrl/Cmd + r
KeyRefresh ==
    /\ initialized /\ ~hidden
    /\ BagCardinality(refreshes) < MaxRefresh
    /\ refreshes' = refreshDataCall(refreshes, refreshButton.innerHTML)
    /\ refreshButton' = [disabled |-> TRUE, loading |-> TRUE, innerHTML |-> RefreshingLabel]
    /\ last' = [op |-> "refreshData", at |-> "call"]
    /\ UNCHANGED <<pageVars, timerVars, connVars, periodVars, chart, displayVars,
                   cycles, cmdVars, notification, welcomePending, healthChecks,
                   touchVars, backend>>

\* Promise.all of a refresh's updateData settles
RefreshResponses(r, statsOutcome, objectsOutcome) ==
    /\ BagIn(r, refreshes) /\ r.pc = "all"
    /\ IF statsOutcome = "ok" /\ objectsOutcome = "ok"
       THEN /\ refreshes' = (refreshes (-) SetToBag({r})) (+)
                                SetToBag({[r EXCEPT !.pc = "statsJson"]})
            /\ UNCHANGED <<connVars, chart, displayVars, notification, refreshButton>>
       ELSE /\ SetDom(updateDataCatch(Dom))
            /\ refreshDataResumes(r, TRUE)
    /\ last' = [op |-> "refreshData", at |-> "all", statsOutcome |-> statsOutcome,
                objectsOutcome |-> objectsOutcome]
    /\ UNCHANGED <<pageVars, timerVars, periodVars, cycles, cmdVars, welcomePending,
                   healthChecks, touchVars, backend>>

\* statsResponse.json() of a refresh's updateData settles
RefreshStatsJson(r, body) ==
    /\ BagIn(r, refreshes) /\ r.pc = "statsJson"
    /\ IF body.kind = "unparsable"
       THEN /\ SetDom(updateDataCatch(Dom))
            /\ refreshDataResumes(r, TRUE)
       ELSE /\ refreshes' = (refreshes (-) SetToBag({r})) (+)
                                SetToBag({[r EXCEPT !.pc = "objectsJson",
                                                    !.statsData = body]})
            /\ UNCHANGED <<connVars, chart, displayVars, notification, refreshButton>>
    /\ last' = [op |-> "refreshData", at |-> "statsJson", statsData |-> body]
    /\ UNCHANGED <<pageVars, timerVars, periodVars, cycles, cmdVars, welcomePending,
                   healthChecks, touchVars, backend>>

\* objectsResponse.json() of a refresh's updateData settles; updateData runs to
\* its end and refreshData after it
RefreshObjectsJson(r, body, time) ==
    /\ BagIn(r, refreshes) /\ r.pc = "objectsJson"
    /\ IF body.kind = "unparsable"
       THEN /\ SetDom(updateDataCatch(Dom))
            /\ refreshDataResumes(r, TRUE)
       ELSE LET t == updateDataTry(Dom, r.statsData, body, time, currentPeriod)
            IN  /\ SetDom(IF t.thrown THEN updateDataCatch(t.dom) ELSE t.dom)
                /\ refreshDataResumes(r, t.thrown)
    /\ last' = [op |-> "refreshData", at |-> "objectsJson", statsData |-> r.statsData,
                objectsData |-> body]
    /\ UNCHANGED <<pageVars, timerVars, periodVars, cycles, cmdVars, welcomePending,
                   healthChecks, touchVars, backend>>

(***************************************************************************)
(* Specifications.  The handlers are independent of one another except     *)
(* through the page, so the product of all of them is explored in three    *)
(* parts: the fetch cycle with every response the backend may give, the    *)
(* timers with the page's visibility and the health check, and the         *)
(* commands.  Each part runs initialize and the fetch cycle.               *)
(***************************************************************************)
\* the settling steps of the fetch cycles in flight, the responses drawn from
\* the given sets
CycleSteps(outcomes, statsBodies, objectsBodies, times) ==
    \/ \E c \in DOMAIN cycles, so \in outcomes, oo \in outcomes :
          updateDataResponses(c, so, oo)
    \/ \E c \in DOMAIN cycles, body \in statsBodies : updateDataStatsJson(c, body)
    \/ \E c \in DOMAIN cycles, body \in objectsBodies, time \in times :
          updateDataObjectsJson(c, body, time)

\* one well-formed response of each endpoint
GoodStats ==
    {[kind |-> "object", is_running |-> TRUE,
      analytics |-> [p \in {"day", "week"} |-> LiveData(p)]]}

GoodObjects ==
    {[kind |-> "object", active_objects |-> (MaxObjects + 1) \div 2,
      objects |-> ObjectList(MaxObjects)]}

OneTime == {"10:00:03"}

NextPoll ==
    \/ initialize
    \/ PollTick
    \/ \E p \in Periods : KeyChangePeriod(p)
    \/ CycleSteps(FetchOutcomes, StatsBodies, ObjectsBodies, OneTime)

SpecPoll == Init /\ [][NextPoll]_vars

NextTimers ==
    \/ initialize
    \/ WelcomeTimeout
    \/ NotificationRemoved
    \/ PollTick
    \/ HealthTick
    \/ VisibilityHidden
    \/ VisibilityVisible
    \/ BeforeUnload
    \/ CycleSteps(FetchOutcomes, GoodStats, GoodObjects, OneTime)
    \/ \E ok \in BOOLEAN : HealthFetchSettles(ok)
    \/ \E body \in HealthBodies : HealthJsonSettles(body)

SpecTimers == Init /\ [][NextTimers]_vars

\* only resetCount asks; the other commands go ahead
Answers(c) == IF c = "reset" THEN BOOLEAN ELSE {TRUE}

NextCommands ==
    \/ initialize
    \/ \E p \in Periods : KeyChangePeriod(p)
    \/ \E c \in Commands : \E confirmed \in Answers(c) : CommandClick(c, confirmed)
    \/ \E c \in Commands, ok \in BOOLEAN : CommandFetchSettles(c, ok)
    \/ \E c \in Commands, body \in CommandBodies : CommandJsonSettles(c, body)
    \/ RefetchTimeout
    \/ CycleSteps({"ok"}, GoodStats, GoodObjects, OneTime)

SpecCommands == Init /\ [][NextCommands]_vars

\* a list of one detected object, for every confidence score of the range
ScoredObjects ==
    {[kind |-> "object", active_objects |-> 1,
      objects |-> <<[Obj(1) EXCEPT !.confidence_score = s]>>] : s \in 0..100}

\* the poll rendering an object of every confidence score
NextRender ==
    \/ initialize
    \/ PollTick
    \/ CycleSteps({"ok"}, GoodStats, ScoredObjects, OneTime)

SpecRender == Init /\ [][NextRender]_vars

\* from now on the backend answers every request with a well-formed 200
BackendRecovers ==
    /\ backend = "flaky"
    /\ backend' = "up"
    /\ last' = [op |-> "backendUp"]
    /\ UNCHANGED <<pageVars, timerVars, connVars, periodVars, chart, displayVars,
                   cycles, cmdVars, notification, welcomePending, healthChecks,
                   touchVars, refreshVars>>

\* what a flaky backend may send: the well-formed bodies, a body that does
\* not parse, a body without the list
FlakyStats == GoodStats \cup {[kind |-> "unparsable"]}
FlakyObjects == GoodObjects \cup {[kind |-> "object", active_objects |-> 1]}

\* a response of a cycle in flight arrives
CycleSettles ==
    \/ backend = "flaky" /\ CycleSteps(FetchOutcomes, FlakyStats, FlakyObjects, OneTime)
    \/ backend = "up" /\ CycleSteps({"ok"}, GoodStats, GoodObjects, OneTime)

\* the visible page left to itself: the poll timer and the backend
NextRecover ==
    \/ initialize
    \/ PollTick
    \/ BackendRecovers
    \/ CycleSettles

\* a live interval timer keeps ticking and every request is answered or fails
SpecRecover ==
    /\ Init /\ [][NextRecover]_vars
    /\ WF_vars(PollTick)
    /\ WF_vars(CycleSettles)

\* the settling steps of the refreshes in flight
RefreshSteps(outcomes, statsBodies, objectsBodies, times) ==
    \/ \E r \in DOMAIN refreshes, so \in outcomes, oo \in outcomes :
          RefreshResponses(r, so, oo)
    \/ \E r \in DOMAIN refreshes, body \in statsBodies : RefreshStatsJson(r, body)
    \/ \E r \in DOMAIN refreshes, body \in objectsBodies, time \in times :
          RefreshObjectsJson(r, body, time)

\* the manual refresh from the keyboard, over a backend that may fail
NextRefresh ==
    \/ initialize
    \/ KeyRefresh
    \/ RefreshSteps(FetchOutcomes, FlakyStats, FlakyObjects, OneTime)
    \/ CycleSteps({"ok"}, GoodStats, GoodObjects, OneTime)

SpecRefresh == Init /\ [][NextRefresh]_vars

\* the period controls: the keyboard and the swipes, with the poll under them
NextPeriod ==
    \/ initialize
    \/ \E p \in Periods : KeyChangePeriod(p)
    \/ \E x \in ScreenXs : TouchStart(x)
    \/ \E x \in ScreenXs : TouchEnd(x)
    \/ PollTick
    \/ CycleSteps({"ok"}, GoodStats, GoodObjects, OneTime)

SpecPeriod == Init /\ [][NextPeriod]_vars

\* the whole page
Next ==
    \/ NextPoll \/ NextTimers \/ NextCommands \/ NextPeriod \/ NextRefresh
    \/ CycleSteps(FetchOutcomes, StatsBodies, ObjectsBodies, Times)

Spec == Init /\ [][Next]_vars

(***************************************************************************)
(* The fetch cycle's claims, checked under SpecPoll.                       *)
(***************************************************************************)
\* the segment l is a cycle failing at its requests: a fetch rejected, or a
\* response with a non-success status
RequestsFailed(l) ==
    /\ l.op = "updateData" /\ l.at = "all"
    /\ l.statsOutcome # "ok" \/ l.objectsOutcome # "ok"

\* both bodies are what the interface says: two objects, the second with a list
\* of objects
WellFormed(statsData, objectsData) ==
    /\ statsData.kind = "object"
    /\ objectsData.kind = "object"
    /\ "objects" \in DOMAIN objectsData
    /\ \A i \in 1..Len(objectsData.objects) : objectsData.objects[i] # NullElement

\* the segment l ends a cycle in its catch block
CycleFailed(l) ==
    /\ l.op = "updateData"
    /\ \/ RequestsFailed(l)
       \/ l.at = "statsJson" /\ l.statsData.kind = "unparsable"
       \/ l.at = "objectsJson" /\ ~WellFormed(l.statsData, l.objectsData)

\* the segment l ends a cycle whose two requests both succeeded
CycleEndsAfterBothOk(l) ==
    /\ l.op = "updateData"
    /\ \/ l.at = "statsJson" /\ l.statsData.kind = "unparsable"
       \/ l.at = "objectsJson"

\* C1: a fetch cycle one of whose requests fails at transport level or has a
\* non-success status ends with isConnected false and leaves the table rows,
\* the count badge, the active-object count, the running indicator and the
\* chart as they were.
C1_FailedRequestsKeepData ==
    [][RequestsFailed(last') =>
          /\ ~isConnected'
          /\ UNCHANGED <<table, activeObjects, lastUpdate, detection, chart>>]_vars

\* a cycle has failed at its requests after an earlier one rendered live data
C1_Witness ==
    /\ RequestsFailed(last)
    /\ last.statsOutcome = "ok" /\ last.objectsOutcome = "notOk"
    /\ ~isConnected
    /\ Len(table.rows) = MaxObjects
    /\ detection.text = "Running"
    /\ chart.data = LiveData(currentPeriod).data

\* C2: every failure path of a fetch cycle, a malformed or unexpected payload
\* included, changes no displayed field and ends with isConnected false.
C2_EveryFailureKeepsLastGood ==
    [][CycleFailed(last') =>
          /\ ~isConnected'
          /\ UNCHANGED <<table, activeObjects, lastUpdate, detection, chart>>]_vars

\* C3 as written: a cycle whose two requests both succeed ends with isConnected
\* true and, the response carrying a list, with as many rows as the list has
\* and the badge showing that count.
C3_BothOkRenders ==
    [][CycleEndsAfterBothOk(last') =>
          /\ isConnected'
          /\ (last'.at = "objectsJson" /\ "objects" \in DOMAIN last'.objectsData) =>
                /\ Len(table'.rows) = Len(last'.objectsData.objects)
                /\ table'.badge = ToString(Len(last'.objectsData.objects)) \o " objects"]_vars

\* C3 amended: a cycle whose two requests both succeed and whose two bodies are
\* well formed ends with isConnected true, one row per object of the fetched
\* list and the badge showing that count.
C3_WellFormedRenders ==
    [][(/\ last'.op = "updateData" /\ last'.at = "objectsJson"
        /\ WellFormed(last'.statsData, last'.objectsData)) =>
          /\ isConnected'
          /\ Len(table'.rows) = Len(last'.objectsData.objects)
          /\ table'.badge = ToString(Len(last'.objectsData.objects)) \o " objects"
          /\ \A i \in 1..Len(table'.rows) :
                table'.rows[i].id = last'.objectsData.objects[i].id]_vars

\* a well-formed cycle has rendered a full list
C3_Witness ==
    /\ last.op = "updateData" /\ last.at = "objectsJson"
    /\ WellFormed(last.statsData, last.objectsData)
    /\ Len(last.objectsData.objects) = MaxObjects
    /\ isConnected
    /\ Len(table.rows) = MaxObjects
    /\ table.badge = ToString(MaxObjects) \o " objects"

C5_HiddenCancelsBothTimers ==
    hidden => PollTimers = {} /\ HealthTimers = {}

\* C6: when the page becomes visible again exactly one poll timer is live
\* afterwards and one fetch cycle has been started.
C6_VisibleRestartsPolling ==
    [][(hidden /\ ~hidden') =>
          /\ Cardinality(PollTimers') = 1
          /\ PollTimers' \cap PollTimers = {}
          /\ cycles' = cycles (+) SetToBag({[pc |-> "all", statsData |-> NoBody]})]_vars

\* the page is visible again: a fresh poll timer, and a cycle awaiting its
\* responses
C6_Witness ==
    /\ last.op = "visible"
    /\ ~hidden
    /\ Cardinality(PollTimers) = 1
    /\ BagIn([pc |-> "all", statsData |-> NoBody], cycles)

\* the segment l ends a health check in a failure: the fetch rejected, or the
\* body is not a healthy one
HealthFailed(l) ==
    /\ l.op = "healthCheck"
    /\ \/ l.at = "fetch" /\ ~l.ok
       \/ l.at = "json" /\ ~(l.body.kind = "object" /\ l.body.status = "healthy")

HealthSucceeded(l) ==
    /\ l.op = "healthCheck" /\ l.at = "json"
    /\ l.body.kind = "object" /\ l.body.status = "healthy"

\* C7: healthCheck ends with isConnected true on a healthy response and with
\* isConnected false on any failure, a network error or a payload that is not
\* healthy.
C7_HealthCheckSetsConnected ==
    [][/\ HealthSucceeded(last') => isConnected'
       /\ HealthFailed(last') => ~isConnected']_vars

(***************************************************************************)
(* The commands' claims, checked under SpecCommands.                       *)
(***************************************************************************)
\* the segment l ends command c
CommandEnded(l, c) ==
    /\ l.op = "command" /\ l.c = c
    /\ l.at = "json" \/ ~l.ok

\* the segment l ends command c without a success: the request failed, the body
\* did not parse or was null, or it says success: false
CommandUnsuccessful(l, c) ==
    /\ l.op = "command" /\ l.c = c
    /\ \/ l.at = "fetch" /\ ~l.ok
       \/ l.at = "json" /\ ~(l.body.kind = "object" /\ l.body.success)

\* C8: whatever the outcome of its request, a command ends with its button
\* enabled and carrying the label it had when the command began (the markup's
\* label, the button taking no click while a command runs), and with exactly one
\* re-fetch scheduled.
C8_CommandRestoresButton ==
    [][\A c \in Commands :
          /\ (last'.op = "click" /\ last'.c = c /\ cmdPc'[c] # "idle") =>
                button[c].innerHTML = HtmlLabel(c)
          /\ CommandEnded(last', c) =>
                /\ button'[c] = [disabled |-> FALSE, loading |-> FALSE,
                                 innerHTML |-> HtmlLabel(c)]
                /\ cmdPc'[c] = "idle"
                /\ pendingRefetch' = pendingRefetch + 1]_vars

\* a reset has ended on a body that does not parse
C8_Witness ==
    /\ CommandEnded(last, "reset")
    /\ last.at = "json" /\ last.body.kind = "unparsable"
    /\ button["reset"] = [disabled |-> FALSE, loading |-> FALSE,
                          innerHTML |-> HtmlLabel("reset")]
    /\ pendingRefetch = 1

\* C9: a reset whose response is not a success shows a failure notification and
\* leaves the table and the chart as they were; a reset whose response says
\* success: true empties the table and sets the chart to the sample data of the
\* current period.
C9_ResetOnlyOnSuccess ==
    [][/\ CommandUnsuccessful(last', "reset") =>
             /\ notification'.type = "error"
             /\ UNCHANGED <<table, chart>>
       /\ (CommandEnded(last', "reset") /\ ~CommandUnsuccessful(last', "reset")) =>
             /\ table'.rows = <<>> /\ table'.badge = "0 objects"
             /\ chart'.labels = generateSampleData(currentPeriod).labels
             /\ chart'.data = generateSampleData(currentPeriod).data]_vars

\* a reset was answered success: false while the table and the chart showed
\* live data, which they still show
C9_Witness ==
    /\ CommandUnsuccessful(last, "reset")
    /\ last.at = "json" /\ last.body.kind = "object"
    /\ notification.type = "error"
    /\ Len(table.rows) = MaxObjects
    /\ chart.data = LiveData(currentPeriod).data

\* C10: a reset whose confirmation is declined sends no POST /reset-count and
\* leaves the table, the chart, the reset button and the notifications as they
\* were.
C10_DeclinedResetDoesNothing ==
    [][(last'.op = "click" /\ last'.c = "reset" /\ ~last'.confirmed) =>
          /\ "reset" \notin posts'
          /\ cmdPc'["reset"] = "idle"
          /\ UNCHANGED <<table, chart, button, notification, pendingRefetch>>]_vars

\* a reset has been declined while the table showed rows
C10_Witness ==
    /\ last.op = "click" /\ last.c = "reset" /\ ~last.confirmed
    /\ posts = {}
    /\ ~button["reset"].disabled
    /\ Len(table.rows) = MaxObjects

(***************************************************************************)
(* The period controls' claims, checked under SpecPeriod.                  *)
(***************************************************************************)
\* the step calls changePeriod(p): from the keyboard, or from a swipe that
\* handleGesture takes for one
ChangePeriodCalled(p) ==
    \/ last'.op = "changePeriod" /\ last'.period = p
    \/ /\ last'.op = "touchend"
       /\ handleGestureTarget(touchStartX, last'.x, currentPeriod) = p

\* C11: for every period p and whatever the page showed before, a call of
\* changePeriod(p) ends with currentPeriod = p, the chart's labels and values
\* the sample arrays of p, the chart's colours the theme of p, and the button
\* of p the one active period button.
C11_ChangePeriodSetsAll ==
    [][\A p \in Periods :
          ChangePeriodCalled(p) =>
              /\ currentPeriod' = p
              /\ chart'.labels = SampleTable[p].labels
              /\ chart'.data = SampleTable[p].data
              /\ chart'.backgroundColor = colorThemes[p].background
              /\ chart'.borderColor = colorThemes[p].border
              /\ activeButtons' = {p}]_vars

\* the month view chosen while a fetch cycle is in flight
C11_Witness ==
    /\ last.op = "changePeriod" /\ last.period = "month"
    /\ currentPeriod = "month"
    /\ chart.data = SampleTable.month.data
    /\ activeButtons = {"month"}
    /\ cycles # EmptyBag

\* the cyclic order day, week, month
NextOf == [day |-> "week", week |-> "month", month |-> "day"]
PrevOf == [day |-> "month", week |-> "day", month |-> "week"]

\* C12: a left swipe longer than the threshold moves currentPeriod to the
\* next period of day, week, month, wrapping from month to day; a right
\* swipe longer than the threshold moves it to the previous one, wrapping
\* from day to month; a swipe not longer than the threshold leaves
\* currentPeriod alone.  Two left swipes from day therefore end on month.
C12_SwipesCycle ==
    [][last'.op = "touchend" =>
          LET left == touchStartX - touchEndX'
          IN  /\ left > threshold => currentPeriod' = NextOf[currentPeriod]
              /\ (-left) > threshold => currentPeriod' = PrevOf[currentPeriod]
              /\ (left <= threshold /\ (-left) <= threshold) =>
                     currentPeriod' = currentPeriod]_vars

\* a left swipe has arrived at month
C12_Witness ==
    /\ last.op = "touchend"
    /\ touchStartX - touchEndX > threshold
    /\ currentPeriod = "month"
    /\ activeButtons = {"month"}

(***************************************************************************)
(* The confidence tiers, checked under SpecRender.                         *)
(***************************************************************************)
\* C13: every rendered row of a score s in 0..100 carries the tier high when
\* s >= 80, medium when 60 <= s < 80 and low when s < 60; so 59 is low, 60 and
\* 79 are medium and 80 is high.
C13_ConfidenceTiers ==
    \A i \in 1..Len(table.rows) :
        LET s == table.rows[i].confidence
            tier == table.rows[i].confidenceClass
        IN  /\ s \in 0..100
            /\ s >= 80 => tier = "confidence-high"
            /\ (60 <= s /\ s < 80) => tier = "confidence-medium"
            /\ s < 60 => tier = "confidence-low"

\* a score at the upper edge of the medium tier has been rendered
C13_Witness ==
    /\ last.op = "updateData" /\ last.at = "objectsJson"
    /\ Len(table.rows) = 1
    /\ table.rows[1].confidence = 79
    /\ table.rows[1].confidenceClass = "confidence-medium"

(***************************************************************************)
(* The rendering of a snapshot, checked under SpecPoll.                    *)
(***************************************************************************)
\* the segment l ends a cycle that ran its try block to the end
CycleSucceeded(l) ==
    /\ l.op = "updateData" /\ l.at = "objectsJson"
    /\ WellFormed(l.statsData, l.objectsData)

\* C14: a successful fetch cycle leaves the running indicator at Running
\* exactly when the snapshot's is_running is true and at Stopped otherwise;
\* it replaces the chart's labels and values by the snapshot's analytics for
\* currentPeriod when the snapshot carries them, and leaves the chart's labels
\* and values as they were when it carries none for currentPeriod.
C14_SnapshotRendersIndicatorAndChart ==
    [][CycleSucceeded(last') =>
          LET statsData == last'.statsData
          IN  /\ (detection'.text = "Running") <=> statsData.is_running
              /\ (detection'.text = "Stopped") <=> ~statsData.is_running
              /\ currentPeriod \in DOMAIN statsData.analytics =>
                    /\ chart'.labels = statsData.analytics[currentPeriod].labels
                    /\ chart'.data = statsData.analytics[currentPeriod].data
              /\ currentPeriod \notin DOMAIN statsData.analytics =>
                    /\ chart'.labels = chart.labels
                    /\ chart'.data = chart.data]_vars

\* a running snapshot with analytics for day and week only has been rendered
\* in the month view, whose sample data stay
C14_Witness ==
    /\ CycleSucceeded(last)
    /\ last.statsData.is_running
    /\ DOMAIN last.statsData.analytics = {"day", "week"}
    /\ currentPeriod = "month"
    /\ detection.text = "Running"
    /\ chart.data = SampleTable.month.data

\* the table, the badge, the active-object count and the running indicator
\* are those of one snapshot: one pair of well-formed bodies
DisplayOfOneCycle ==
    \E statsData \in StatsBodies, objectsData \in ObjectsBodies :
        /\ WellFormed(statsData, objectsData)
        /\ activeObjects = ToString(objectsData.active_objects)
        /\ table = updateObjectsTable(table, objectsData.objects).table
        /\ detection = DetectionOf(statsData.is_running)

\* C15: with two or more fetch cycles in flight over a page that shows one
\* cycle's snapshot, whichever of them resolves, the table, the badge, the
\* active-object count and the running indicator are afterwards those of one
\* cycle, never a mixture of two; and they are those of the cycle that
\* resolved last whenever that cycle rendered.
C15_DisplayOfOneCycleOnly ==
    [][(/\ last'.op = "updateData"
        /\ BagCardinality(cycles') < BagCardinality(cycles)
        /\ BagCardinality(cycles) >= 2
        /\ DisplayOfOneCycle) =>
          /\ DisplayOfOneCycle'
          /\ CycleSucceeded(last') =>
                /\ activeObjects' = ToString(last'.objectsData.active_objects)
                /\ Len(table'.rows) = Len(last'.objectsData.objects)
                /\ detection' = DetectionOf(last'.statsData.is_running)]_vars

(***************************************************************************)
(* Recovery, checked under SpecRecover.                                    *)
(***************************************************************************)
\* C16: while the page is visible and the poll timer is live, a failed fetch
\* cycle is always followed by another cycle started by a later tick of the
\* timer, with no user action; and once the backend answers both requests
\* successfully from some point on, isConnected becomes true again.
C16_FailedCycleRetriedAndRecovers ==
    /\ (CycleFailed(last) /\ ~hidden /\ PollTimers # {}) ~> (last.op = "pollTick")
    /\ (backend = "up" /\ ~isConnected) ~> isConnected

\* after a failed cycle, with the backend recovered, a tick has started the
\* next cycle
C16_Witness ==
    /\ ~isConnected
    /\ ~hidden /\ PollTimers # {}
    /\ backend = "up"
    /\ last.op = "pollTick"
    /\ BagIn([pc |-> "all", statsData |-> NoBody], cycles)

(***************************************************************************)
(* The chart and the period, checked under SpecCommands.                   *)
(***************************************************************************)
\* C17: in every state after initialization, a changePeriod while a fetch
\* cycle or a reset is in flight included, the chart's colours are the theme
\* of currentPeriod and its labels and values are the sample data of
\* currentPeriod or the analytics fetched for currentPeriod, never those of
\* another period.
C17_ChartFollowsPeriod ==
    initialized =>
        /\ chart.backgroundColor = colorThemes[currentPeriod].background
        /\ chart.borderColor = colorThemes[currentPeriod].border
        /\ \/ /\ chart.labels = SampleTable[currentPeriod].labels
              /\ chart.data = SampleTable[currentPeriod].data
           \/ /\ chart.labels = LiveData(currentPeriod).labels
              /\ chart.data = LiveData(currentPeriod).data

\* the week view has been chosen while a fetch cycle and a reset are in flight
C17_Witness ==
    /\ initialized
    /\ last.op = "changePeriod" /\ last.period = "week"
    /\ currentPeriod = "week"
    /\ cmdPc["reset"] # "idle"
    /\ cycles # EmptyBag

(***************************************************************************)
(* The manual refresh's claims, checked under SpecRefresh.                 *)
(***************************************************************************)
\* C18: once every started manual refresh has finished, the refresh button is
\* enabled and shows the label it had before any refresh began, also when the
\* keyboard shortcut starts a refresh while another is in flight.
C18_RefreshRestoresButton ==
    (initialized /\ refreshes = EmptyBag) =>
        /\ ~refreshButton.disabled
        /\ ~refreshButton.loading
        /\ refreshButton.innerHTML = RefreshLabel

\* the segment l ends a call of refreshData
RefreshEnded(l) ==
    /\ l.op = "refreshData"
    /\ \/ l.at = "all" /\ (l.statsOutcome # "ok" \/ l.objectsOutcome # "ok")
       \/ l.at = "statsJson" /\ l.statsData.kind = "unparsable"
       \/ l.at = "objectsJson"

\* the fetch cycle of the refresh that l ends has failed
RefreshCycleFailed(l) ==
    l.at = "objectsJson" => ~WellFormed(l.statsData, l.objectsData)

\* C19: every call of refreshData emits one notification, when it ends, and
\* that is the success notification whether its fetch cycle succeeded or
\* failed; the failure notification of refreshData is never on the page.
C19_RefreshAlwaysNotifiesSuccess ==
    [][/\ (last'.op = "refreshData" /\ ~RefreshEnded(last')) =>
              notification' = notification
       /\ RefreshEnded(last') =>
              notification' = showNotification("Data refreshed successfully!", "success")
       /\ notification' # showNotification("Failed to refresh data", "error")]_vars

\* a refresh whose fetch cycle failed has ended with the success notification
C19_Witness ==
    /\ RefreshEnded(last)
    /\ RefreshCycleFailed(last)
    /\ ~isConnected
    /\ notification = showNotification("Data refreshed successfully!", "success")

====
